---- MODULE Spec2Model ----
(***************************************************************************)
(* Model of the Zendesk MCP gateway.                                       *)
(*                                                                         *)
(*   Spec       the streaming HTTP endpoint app.all("/mcp") of             *)
(*              src/src/server.ts: the session table `transports`, the     *)
(*              handshake, the registration and close callbacks, and the   *)
(*              error envelopes the endpoint writes itself, under          *)
(*              concurrent clients that follow the protocol (a handshake   *)
(*              bears no header, a stream or a termination bears the       *)
(*              identifier of a live session).                             *)
(*   SpecRequests  the same endpoint, one request at a time, with every    *)
(*              shape of request under every header value (absent, live,   *)
(*              closed, forged).                                           *)
(*   SpecTools  one tool invocation through each of the three dispatchers: *)
(*              the CallTool handler of src/src/index.ts (pipe), the       *)
(*              CallTool handler of src/src/server.ts (streaming) and      *)
(*              POST /tools/:toolName of src/src/server.ts, down to the    *)
(*              remote calls of ZendeskClient and their outcomes.          *)
(*   SpecPages  one comment aggregation of src/src/index.ts (get_ticket,   *)
(*              get_ticket_comments), with a remote that answers every     *)
(*              request and serves at most MaxPages pages.                 *)
(*   SpecArticles  one search_articles invocation of src/src/index.ts with *)
(*              up to MaxArticleHits hits, the detail fetches settling in  *)
(*              the order of the hits (SpecTools explores every order for  *)
(*              up to MaxHits hits).                                       *)
(*   SpecListing  the tool listing next to sessions and invocations.       *)
(*   SpecTickets  one search_tickets invocation of src/src/index.ts, the   *)
(*              remote returning up to MaxTicketHits results.              *)
(*   SpecUrl    ZendeskClient.convertToCustomUrl of src/src/index.ts on    *)
(*              article URLs of up to MaxUrlLen segments.                  *)
(*                                                                         *)
(* The MCP SDK (StreamableHTTPServerTransport, Server) and node's          *)
(* randomUUID are libraries, not code of the repository.  Their behaviour  *)
(* is the environment of the model: the Sdk* actions are the steps of      *)
(* transport.handleRequest as seen from the endpoint that awaits it.       *)
(***************************************************************************)
EXTENDS Integers, Sequences, FiniteSets, Bags, TLC

\* ------------------------------------------------------------------ bounds
MaxTransports == 2      \* transports (sessions) created in one behaviour
MaxInFlight == 2        \* /mcp requests outstanding at the same time
MaxPages == 3           \* pages the remote serves for one comment collection
MaxPageLen == 2         \* comments on one page
MaxHits == 3            \* results the remote returns for one search
MaxArticleHits == 11    \* results of one article search whose fetches settle in order
MaxTicketHits == 101    \* results the remote returns for one ticket search
MaxUrlLen == 3          \* segments of an article URL

\* --------------------------------------------------------------- constants
NoSession == 0          \* header absent; transport.sessionId undefined
NoTransport == 0        \* `undefined` in `let transport`
ForgedId == MaxTransports + 1   \* a header value randomUUID never returns

TransportIds == 1..MaxTransports

NoBody == [present |-> FALSE, jsonrpc |-> "", method |-> "", hasParams |-> FALSE]

\* req.body after express.json(): nothing, or a JSON-RPC shaped object
Bodies ==
    {NoBody,
     [present |-> TRUE, jsonrpc |-> "2.0", method |-> "initialize", hasParams |-> TRUE],
     [present |-> TRUE, jsonrpc |-> "2.0", method |-> "initialize", hasParams |-> FALSE],
     [present |-> TRUE, jsonrpc |-> "1.0", method |-> "initialize", hasParams |-> TRUE],
     [present |-> TRUE, jsonrpc |-> "2.0", method |-> "tools/call", hasParams |-> TRUE]}

\* the (method, body) shapes a client sends: every body with POST, and with GET
\* and DELETE no body or a well-formed handshake body
Shapes ==
    {<<"POST", b>> : b \in Bodies}
    \cup {<<m, NoBody>> : m \in {"GET", "DELETE"}}
    \cup {<<m, [present |-> TRUE, jsonrpc |-> "2.0", method |-> "initialize",
                hasParams |-> TRUE]>> : m \in {"GET", "DELETE"}}

\* every header value with every shape
Requests == {<<sid, shape[1], shape[2]>> : sid \in 0..ForgedId, shape \in Shapes}

VARIABLES
    transports,     \* the session table: sessionId -> transport
    tSessionId,     \* transport.sessionId of every transport object
    nTransports,    \* transports constructed so far
    uuidCount,      \* identifiers randomUUID has returned so far
    req,            \* the /mcp requests in flight: a bag of request records
    closedIds,      \* history: identifiers a close callback removed
    closeRuns,      \* history: runs of each transport's close callback
    registrations,  \* history: table inserts of each transport
    gw,             \* the process: which dispatcher serves, zendeskClient set or null
    inv             \* the tool invocation being served

svars == <<transports, tSessionId, nTransports, uuidCount, req,
           closedIds, closeRuns, registrations>>

tvars == <<gw, inv>>

vars == <<transports, tSessionId, nTransports, uuidCount, req,
          closedIds, closeRuns, registrations, gw, inv>>

\* ----------------------------------------------------------------- helpers
Lookup_First(table, sid) ==
    IF sid # NoSession /\ sid \in DOMAIN table
    THEN table[CHOOSE k \in DOMAIN table : \A j \in DOMAIN table : k <= j]
    ELSE NoTransport

\* `sessionId ? transports[sessionId] : undefined`
Lookup(table, sid) ==
    IF sid # NoSession /\ sid \in DOMAIN table THEN table[sid] ELSE NoTransport

Remove(table, sid) == [k \in (DOMAIN table) \ {sid} |-> table[k]]

\* the req and res objects as express hands them to the handler
NewReq ==
    [pc |-> "received", sid |-> NoSession, method |-> "GET", body |-> NoBody,
     transport |-> NoTransport, created |-> NoTransport, stale |-> FALSE,
     found |-> FALSE,
     status |-> 0, code |-> 0, envelope |-> "none", envId |-> "none",
     headersSent |-> FALSE, faulted |-> FALSE,
     heads |-> 0, envelopes |-> 0]

\* ------------------------------------------------------- code of server.ts
IsInitializeRequest_NoParamsCheck(body) ==
    body.present /\ body.jsonrpc = "2.0" /\ body.method = "initialize"

IsInitializeRequest(body) ==
    /\ body.present
    /\ body.jsonrpc = "2.0"
    /\ body.method = "initialize"
    /\ body.hasParams

AcceptsHandshake_AnyMethod(transport, method, body) ==
    transport = NoTransport /\ IsInitializeRequest(body)

\* the condition of `if (!transport && req.method === "POST" && isInitializeRequest(req.body))`
AcceptsHandshake(transport, method, body) ==
    /\ transport = NoTransport
    /\ method = "POST"
    /\ IsInitializeRequest(body)

RandomUUID_Repeats == IF uuidCount > 0 THEN uuidCount ELSE uuidCount + 1

\* sessionIdGenerator: () => randomUUID().  A version 4 UUID carries 122 random
\* bits; the model takes the generator to return a value it never returned before.
RandomUUID == uuidCount + 1

OnSessionInitialized_Resets(table, transport, sid) ==
    IF transport # NoTransport THEN (sid :> transport) ELSE table

\* onsessioninitialized: (sid) => { if (transport) transports[sid] = transport }
OnSessionInitialized(table, transport, sid) ==
    IF transport # NoTransport THEN (sid :> transport) @@ table ELSE table

OnClose_KeepsEntry(table, transport) == table

OnClose_ClearsTable(table, transport) ==
    IF transport # NoTransport /\ tSessionId[transport] # NoSession
    THEN << >> ELSE table

\* transport.onclose = () => { if (transport && transport.sessionId) delete transports[transport.sessionId] }
OnClose(table, transport) ==
    IF transport # NoTransport /\ tSessionId[transport] # NoSession
    THEN Remove(table, tSessionId[transport])
    ELSE table

\* res.status(400).json({jsonrpc: "2.0", error: {code: -32000, ...}, id: null})
NoSessionResponse(r) ==
    [r EXCEPT !.pc = "done", !.status = 400, !.code = -32000,
              !.envelope = "gateway", !.envId = "null", !.headersSent = TRUE,
              !.heads = @ + 1, !.envelopes = @ + 1]

CatchResponse_Always(r) ==
    [r EXCEPT !.pc = "done", !.faulted = TRUE, !.status = 500, !.code = -32603,
              !.envelope = "gateway", !.envId = "null", !.headersSent = TRUE,
              !.heads = @ + 1, !.envelopes = @ + 1]

\* the catch block: if (!res.headersSent) res.status(500).json({... code: -32603 ..., id: null})
CatchResponse(r) ==
    IF r.headersSent
    THEN [r EXCEPT !.pc = "done", !.faulted = TRUE]
    ELSE [r EXCEPT !.pc = "done", !.faulted = TRUE, !.status = 500, !.code = -32603,
                   !.envelope = "gateway", !.envId = "null", !.headersSent = TRUE,
                   !.heads = @ + 1, !.envelopes = @ + 1]


\* ------------------------------------------- code of the tool dispatchers
DetailCap == 10         \* results.slice(0, 10)
ResultCap == 5          \* publicArticles.slice(0, 5)
DefaultMaxResults == 100
NullArticle == 0        \* `return null` of the detail mapper
MaxResultsLimit == 100  \* max_results of the search_tickets descriptor: "max: 100"

Variants == {"stdio", "http", "rest"}

\* TOOLS of index.ts and of server.ts, in declaration order
ToolsIndex ==
    <<"search_tickets", "get_ticket", "create_ticket", "update_ticket",
      "add_comment", "get_ticket_comments", "search_users", "get_user",
      "search_organizations", "get_organization", "search_articles",
      "get_article", "get_articles_by_section">>

ToolsServer ==
    <<"search_tickets", "get_ticket", "create_ticket", "update_ticket",
      "add_comment", "get_ticket_comments", "search_users", "get_user",
      "search_organizations", "get_organization">>

\* the process as its module initialisation leaves it: which dispatcher serves,
\* zendeskClient set or null, and the TOOLS array
Process(variant, configured) ==
    [variant |-> variant, configured |-> configured,
     tools |-> IF variant = "stdio" THEN ToolsIndex ELSE ToolsServer,
     helpCenterUrl |-> ""]

\* the case labels of the two switch statements
SwitchIndex ==
    {"search_tickets", "get_ticket", "create_ticket", "update_ticket",
     "add_comment", "get_ticket_comments", "search_users", "get_user",
     "search_organizations", "get_organization", "search_articles",
     "get_article", "get_articles_by_section"}

SwitchServer_NoComments ==
    {"search_tickets", "get_ticket", "create_ticket", "update_ticket",
     "add_comment", "search_users", "get_user",
     "search_organizations", "get_organization"}

\* the case labels of the switch of executeTool
SwitchServer ==
    {"search_tickets", "get_ticket", "create_ticket", "update_ticket",
     "add_comment", "get_ticket_comments", "search_users", "get_user",
     "search_organizations", "get_organization"}

\* the names a client may send
ToolNames == SwitchIndex \cup {"delete_ticket"}

\* args.max_results as sent: 0 stands for absent (or any falsy value)
MaxResultsArgs == {0, 1, 150}

BadResponse ==
    [code |-> "ERR_BAD_RESPONSE", message |-> "Request failed with status code 500"]

\* args.is_public as sent
IsPublicArgs == {"absent", "true", "false"}

\* failures of a remote call, as axios reports them
RemoteErrors ==
    {[code |-> "ECONNABORTED", message |-> "timeout of 30000ms exceeded"],
     [code |-> "ETIMEDOUT", message |-> "timeout of 30000ms exceeded"],
     BadResponse}

\* error.message.includes('timeout')
IncludesTimeout(message) == message = "timeout of 30000ms exceeded"

Min(a, b) == IF a < b THEN a ELSE b

\* Array.prototype.slice(0, n) for n >= 0
Slice(seq, n) == SubSeq(seq, 1, Min(n, Len(seq)))

NoResult ==
    [kind |-> "none", items |-> << >>, count |-> 0, total |-> 0,
     hasError |-> FALSE, message |-> ""]

NoResponse ==
    [isError |-> FALSE, status |-> 0, success |-> FALSE, text |-> << >>,
     result |-> NoResult]

NoInvocation ==
    [pc |-> "none", name |-> "", hasArgs |-> FALSE, maxResults |-> 0,
     await |-> "none", calls |-> 0, outstanding |-> 0,
     pages |-> 0, served |-> << >>, allComments |-> << >>,
     hits |-> 0, details |-> << >>, order |-> << >>, failures |-> << >>,
     listed |-> FALSE, listing |-> << >>,
     isPublic |-> "absent", public |-> "none",
     url |-> << >>, publicUrl |-> << >>,
     responses |-> 0, escaped |-> FALSE, resp |-> NoResponse]

\* what a method of ZendeskClient, or the body of a dispatcher, ends with
Return(result) == [threw |-> FALSE, msg |-> << >>, result |-> result]
Throw(msg) == [threw |-> TRUE, msg |-> msg, result |-> NoResult]

\* { content: [{ type: "text", text: JSON.stringify(result, null, 2) }] }
McpSuccess(result) == [NoResponse EXCEPT !.text = <<"json">>, !.result = result]

\* { content: [{ type: "text", text }], isError: true }
McpFailure(text) == [NoResponse EXCEPT !.isError = TRUE, !.text = text]

CredentialsText ==
    <<"Error: Zendesk credentials not configured. Please set ZENDESK_SUBDOMAIN, ZENDESK_EMAIL, and ZENDESK_API_TOKEN environment variables.">>

\* index.ts: `if (!zendeskClient) return { content: [...] }`, without isError
CredentialsResponseStdio == [NoResponse EXCEPT !.text = CredentialsText]

\* server.ts: `if (!zendeskClient) return { content: [...], isError: true }`
CredentialsResponseHttp == McpFailure(CredentialsText)

\* `if (!args) return { ... "Error: No arguments provided" ..., isError: true }`
NoArgsResponse == McpFailure(<<"Error: No arguments provided">>)

UnknownToolResponse_NoName(name) == McpFailure(<<"Unknown tool">>)

\* index.ts, default case of the switch
UnknownToolResponse(name) == McpFailure(<<"Unknown tool: ", name>>)

McpCatch_NoFlag(msg) == [NoResponse EXCEPT !.text = <<"Error: ">> \o msg]

\* the catch block of both CallTool handlers
McpCatch(msg) == McpFailure(<<"Error: ">> \o msg)

\* res.json({ success: true, data: result })
RestSuccess(result) ==
    [NoResponse EXCEPT !.status = 200, !.success = TRUE, !.result = result]

\* res.status(500).json({ success: false, error: message })
RestCatch(msg) == [NoResponse EXCEPT !.status = 500, !.text = msg]

Respond_NoCatch(i, variant, outcome) ==
    IF outcome.threw
    THEN [i EXCEPT !.pc = "done", !.await = "none", !.escaped = TRUE]
    ELSE [i EXCEPT !.pc = "done", !.await = "none", !.responses = @ + 1,
                   !.resp = IF variant = "rest" THEN RestSuccess(outcome.result)
                            ELSE McpSuccess(outcome.result)]

\* the end of a dispatcher's try block: the value is wrapped as a success, or
\* the catch block wraps the message of what was thrown
Respond(i, variant, outcome) ==
    [i EXCEPT !.pc = "done", !.await = "none", !.responses = @ + 1,
              !.resp = IF variant = "rest"
                       THEN IF outcome.threw THEN RestCatch(outcome.msg)
                            ELSE RestSuccess(outcome.result)
                       ELSE IF outcome.threw THEN McpCatch(outcome.msg)
                            ELSE McpSuccess(outcome.result)]

\* a return statement of a CallTool handler outside the wrapping above
Reply(i, response) ==
    [i EXCEPT !.pc = "done", !.await = "none", !.responses = @ + 1, !.resp = response]

\* the first remote call of each case of the switch of index.ts
FirstAwaitIndex(name) ==
    CASE name = "search_tickets" -> "search_tickets"
      [] name = "get_ticket" -> "ticket"
      [] name = "get_ticket_comments" -> "page"
      [] name = "search_articles" -> "search"
      [] OTHER -> "single"

Call_Prefetch(i, kind) ==
    IF kind = "page"
    THEN [i EXCEPT !.pc = "awaiting", !.await = kind, !.calls = @ + 2,
                   !.outstanding = @ + 2]
    ELSE [i EXCEPT !.pc = "awaiting", !.await = kind, !.calls = @ + 1,
                   !.outstanding = @ + 1]

\* `await this.axiosInstance.get(...)`: a remote call is issued and the
\* invocation suspends on it
Call(i, kind) ==
    [i EXCEPT !.pc = "awaiting", !.await = kind, !.calls = @ + 1,
              !.outstanding = @ + 1]

\* the awaited remote call settles (its promise resolves or rejects)
Settled(i) == [i EXCEPT !.outstanding = @ - 1]

\* executeTool of server.ts up to its remote call, inside the try of its caller
ExecuteTool(i, configured) ==
    IF ~configured
    THEN Respond(i, gw.variant, Throw(<<"Zendesk credentials not configured">>))
    ELSE IF i.name \in SwitchServer
    THEN IF i.hasArgs THEN Call(i, "single")
         ELSE Respond(i, gw.variant, Throw(<<"Cannot read properties of undefined">>))
    ELSE Respond(i, gw.variant, Throw(<<"Unknown tool: ", i.name>>))

CallToolIndex_NameFirst(i, configured) ==
    IF ~configured THEN Reply(i, CredentialsResponseStdio)
    ELSE IF i.name \notin SwitchIndex THEN Reply(i, UnknownToolResponse(i.name))
    ELSE IF ~i.hasArgs THEN Reply(i, NoArgsResponse)
    ELSE Call(i, FirstAwaitIndex(i.name))

\* the CallTool handler of index.ts up to its first remote call
CallToolIndex(i, configured) ==
    IF ~configured THEN Reply(i, CredentialsResponseStdio)
    ELSE IF ~i.hasArgs THEN Reply(i, NoArgsResponse)
    ELSE IF i.name \in SwitchIndex THEN Call(i, FirstAwaitIndex(i.name))
    ELSE Reply(i, UnknownToolResponse(i.name))

\* the CallTool handler of server.ts up to its first remote call
CallToolServer(i, configured) ==
    IF ~configured THEN Reply(i, CredentialsResponseHttp)
    ELSE IF ~i.hasArgs THEN Reply(i, NoArgsResponse)
    ELSE ExecuteTool(i, configured)

Push_Replace(allComments, comments) == comments

\* allComments.push(...response.data.comments)
Push(allComments, comments) == allComments \o comments

ContinueLoop_Capped(i, nextPage) == nextPage /\ i.pages < 2

\* `nextPageUrl = response.data.next_page` and the test of `while (nextPageUrl)`
ContinueLoop(i, nextPage) == nextPage

Propagate_Partial(i, e) ==
    IF i.await = "page"
    THEN Return([NoResult EXCEPT !.kind = i.name, !.items = i.allComments,
                                 !.count = Len(i.allComments)])
    ELSE Throw(<<e.message>>)

\* a rejected `await` outside any try block of ZendeskClient: the method
\* rejects with the same error
Propagate(i, e) == Throw(<<e.message>>)

\* the text `https://${subdomain}.zendesk.com/hc/`, which urlPattern matches
ZendeskHc == "https://sub.zendesk.com/hc/"

\* ZENDESK_HELP_CENTER_URL as configured, and `${this.helpCenterUrl}/hc/`
HelpCenterUrl == "https://help.example.com"
CustomHc == "https://help.example.com/hc/"

\* an article URL as a sequence of segments: the text urlPattern matches, or
\* text in which it does not occur
UrlSegments == {ZendeskHc, "https://other.example.com/hc/", "ja/articles/1?ref="}

RECURSIVE SeqsUpTo(_, _)
SeqsUpTo(S, n) ==
    IF n = 0 THEN {<< >>}
    ELSE LET shorter == SeqsUpTo(S, n - 1)
         IN  shorter \cup {Append(u, x) : u \in shorter, x \in S}

Urls == SeqsUpTo(UrlSegments, MaxUrlLen) \ {<< >>}

\* String.prototype.replace with a global RegExp: every match is replaced
ReplaceAll(url, pattern, replacement) ==
    [k \in 1..Len(url) |-> IF url[k] = pattern THEN replacement ELSE url[k]]

\* ZendeskClient.convertToCustomUrl
ConvertToCustomUrl(helpCenterUrl, zendeskUrl) ==
    IF helpCenterUrl = "" THEN zendeskUrl
    ELSE ReplaceAll(zendeskUrl, ZendeskHc, CustomHc)

IsPublicIndex_OrTrue(isPublic) == "true"

\* index.ts: `args.is_public !== undefined ? (args.is_public as boolean) : true`
IsPublicIndex(isPublic) == IF isPublic # "absent" THEN isPublic ELSE "true"

\* server.ts: `args.is_public ?? true`
IsPublicServer(isPublic) == IF isPublic = "absent" THEN "true" ELSE isPublic

\* ZendeskClient.addComment: the body of PUT /tickets/{id}.json carries
\* comment.public = isPublic
AddCommentRequest(i, variant) ==
    IF i.name = "add_comment" /\ i.pc = "awaiting"
    THEN [i EXCEPT !.public = IF variant = "stdio" THEN IsPublicIndex(i.isPublic)
                              ELSE IsPublicServer(i.isPublic)]
    ELSE i

ListToolsResponse_NeedsCredentials(g) == IF g.configured THEN g.tools ELSE << >>

\* `return { tools: TOOLS }` of both ListTools handlers and
\* `res.json({ tools: TOOLS })` of GET /tools
ListToolsResponse(g) == g.tools

\* the catch block of ZendeskClient.searchTickets (index.ts)
SearchTicketsCatch(e) ==
    IF e.code = "ECONNABORTED" \/ IncludesTimeout(e.message)
    THEN Return([NoResult EXCEPT !.kind = "search_tickets", !.hasError = TRUE,
                    !.message = "search timed out"])
    ELSE Throw(<<e.message>>)

\* the try block of ZendeskClient.searchTickets after the response arrived
SearchTicketsResult(results, total, maxResults) ==
    LET limited == Slice(results, maxResults)
    IN  [NoResult EXCEPT !.kind = "search_tickets", !.items = limited,
                         !.count = Len(limited), !.total = total]

\* the outer catch block of ZendeskClient.searchArticles
SearchArticlesCatch(e) ==
    Return([NoResult EXCEPT !.kind = "search_articles", !.hasError = TRUE,
               !.message = "help center search error"])

Fetched_All(results) == results

\* results.slice(0, 10): the search hits whose detail is fetched
Fetched(results) == Slice(results, DetailCap)

ArticleOrNull_KeepsDraft(hit, outcome) ==
    IF outcome \in {"public", "draft"} THEN hit ELSE NullArticle

\* what the async mapper of one hit resolves with: its record, or null for a
\* draft (`articleData.draft === true`) and for a failed fetch (the inner catch)
ArticleOrNull(hit, outcome) == IF outcome = "public" THEN hit ELSE NullArticle

PromiseAll_CompletionOrder(values, order) ==
    [j \in 1..Len(order) |-> values[order[j]]]

\* Promise.all(articlesPromises): the values in the order of the promises,
\* whatever the order in which they settled
PromiseAll(values, order) == values

\* articlesWithDetails.filter(article => article !== null)
PublicArticles(articlesWithDetails) ==
    SelectSeq(articlesWithDetails, LAMBDA a : a # NullArticle)

\* { results: [], count: 0, ..., message: "検索結果が見つかりませんでした" }
NoHitsResult ==
    [NoResult EXCEPT !.kind = "search_articles", !.message = "no search results"]

NoPublicResult_SameMessage == NoHitsResult

\* { results: [], count: 0, ..., message: "公開されている記事が見つかりませんでした" }
NoPublicResult ==
    [NoResult EXCEPT !.kind = "search_articles", !.message = "no public articles found"]

Limited_All(publicArticles) == publicArticles

\* publicArticles.slice(0, 5)
Limited(publicArticles) == Slice(publicArticles, ResultCap)

\* ZendeskClient.searchArticles after Promise.all resolved
SearchArticlesResult(articlesWithDetails) ==
    LET publicArticles == PublicArticles(articlesWithDetails)
    IN  IF Len(publicArticles) = 0
        THEN NoPublicResult
        ELSE [NoResult EXCEPT !.kind = "search_articles",
                              !.items = Limited(publicArticles),
                              !.count = Len(publicArticles)]

\* ----------------------------------------------------------------- actions
\* the requests still being served: the req and res objects of a request that
\* has ended are kept for one state and dropped at the next step
Retired == [r \in {x \in DOMAIN req : x.pc # "done"} |-> req[r]]

\* the requests in flight once request r has moved on to r2
Continue(r, r2) == (Retired (-) SetToBag({r})) (+) SetToBag({r2})

InitSessions ==
    /\ transports = << >>
    /\ tSessionId = [t \in TransportIds |-> NoSession]
    /\ nTransports = 0
    /\ uuidCount = 0
    /\ req = EmptyBag
    /\ closedIds = {}
    /\ closeRuns = [t \in TransportIds |-> 0]
    /\ registrations = [t \in TransportIds |-> 0]

Init ==
    /\ InitSessions
    /\ gw = Process("http", TRUE)
    /\ inv = NoInvocation

\* app.all("/mcp") from its entry to its first suspension or its early return
McpReceive(limit, sid, method, body) ==
    /\ BagCardinality(Retired) < limit
    /\ sid = NoSession \/ sid = ForgedId \/ sid <= uuidCount
    /\ LET transport == Lookup(transports, sid)
           r0 == [NewReq EXCEPT !.sid = sid, !.method = method, !.body = body,
                                !.transport = transport,
                                !.stale = (sid \in closedIds),
                                !.found = (transport # NoTransport)]
       IN  IF AcceptsHandshake(transport, method, body)
           THEN /\ nTransports < MaxTransports
                /\ nTransports' = nTransports + 1
                /\ req' = Retired (+) SetToBag({[r0 EXCEPT !.pc = "connecting",
                                                           !.transport = nTransports + 1,
                                                           !.created = nTransports + 1]})
           ELSE /\ UNCHANGED nTransports
                /\ IF transport = NoTransport
                   THEN req' = Retired (+) SetToBag({NoSessionResponse(r0)})
                   ELSE req' = Retired (+) SetToBag({[r0 EXCEPT !.pc = "handling"]})
    /\ UNCHANGED <<transports, tSessionId, uuidCount, closedIds, closeRuns, registrations>>
    /\ UNCHANGED tvars

\* `await mcpServer.connect(transport)` resolves; `if (!transport)` is skipped and
\* transport.handleRequest(req, res, req.body) is entered
McpConnected(r) ==
    /\ r.pc = "connecting"
    /\ req' = Continue(r, [r EXCEPT !.pc = "handling"])
    /\ UNCHANGED <<transports, tSessionId, nTransports, uuidCount,
                   closedIds, closeRuns, registrations>>
    /\ UNCHANGED tvars

\* `await mcpServer.connect(transport)` rejects: the catch block answers
McpConnectFails(r) ==
    /\ r.pc = "connecting"
    /\ req' = Continue(r, CatchResponse(r))
    /\ UNCHANGED <<transports, tSessionId, nTransports, uuidCount,
                   closedIds, closeRuns, registrations>>
    /\ UNCHANGED tvars

\* handleRequest on a handshake: the transport draws its identifier once and
\* calls onsessioninitialized with it
SdkInitialize(r) ==
    /\ r.pc = "handling"
    /\ r.method = "POST"
    /\ r.body.present /\ r.body.method = "initialize"
    /\ tSessionId[r.transport] = NoSession
    /\ uuidCount < MaxTransports
    /\ LET t == r.transport
           sid == RandomUUID
       IN  /\ uuidCount' = uuidCount + 1
           /\ tSessionId' = [tSessionId EXCEPT ![t] = sid]
           /\ transports' = OnSessionInitialized(transports, t, sid)
           /\ registrations' = [registrations EXCEPT ![t] = @ + 1]
    /\ req' = Continue(r, [r EXCEPT !.pc = "responding"])
    /\ UNCHANGED <<nTransports, closedIds, closeRuns>>
    /\ UNCHANGED tvars

\* handleRequest on a DELETE for an initialized transport: transport.close()
\* runs the close callback
SdkClose(r) ==
    /\ r.pc = "handling"
    /\ r.method = "DELETE"
    /\ tSessionId[r.transport] # NoSession
    /\ LET t == r.transport
       IN  /\ transports' = OnClose(transports, t)
           /\ closeRuns' = [closeRuns EXCEPT ![t] = @ + 1]
           /\ closedIds' = closedIds \cup ((DOMAIN transports) \ (DOMAIN transports'))
    /\ req' = Continue(r, [r EXCEPT !.pc = "responding"])
    /\ UNCHANGED <<tSessionId, nTransports, uuidCount, registrations>>
    /\ UNCHANGED tvars

\* handleRequest on any other request of a session (a GET stream, a POST of
\* messages): the messages go to the connected server
SdkServe(r) ==
    /\ r.pc = "handling"
    /\ r.method # "DELETE"
    /\ tSessionId[r.transport] # NoSession
    /\ req' = Continue(r, [r EXCEPT !.pc = "responding"])
    /\ UNCHANGED <<transports, tSessionId, nTransports, uuidCount,
                   closedIds, closeRuns, registrations>>
    /\ UNCHANGED tvars

\* handleRequest refuses the request with a response of its own and returns
SdkReject(r) ==
    /\ r.pc = "handling"
    /\ req' = Continue(r, [r EXCEPT !.pc = "done", !.envelope = "sdk",
                                    !.headersSent = TRUE, !.heads = @ + 1])
    /\ UNCHANGED <<transports, tSessionId, nTransports, uuidCount,
                   closedIds, closeRuns, registrations>>
    /\ UNCHANGED tvars

\* what the transport has done to res by the time handleRequest settles: the
\* response head is written (sent) or not yet
Written(r, sent) ==
    IF sent THEN [r EXCEPT !.headersSent = TRUE, !.envelope = "sdk", !.heads = @ + 1]
    ELSE r

\* `await transport.handleRequest(...)` resolves
SdkReturn(r, sent) ==
    /\ r.pc = "responding"
    /\ req' = Continue(r, [Written(r, sent) EXCEPT !.pc = "done"])
    /\ UNCHANGED <<transports, tSessionId, nTransports, uuidCount,
                   closedIds, closeRuns, registrations>>
    /\ UNCHANGED tvars

\* `await transport.handleRequest(...)` rejects: the catch block runs
SdkThrows(r, sent) ==
    /\ r.pc \in {"handling", "responding"}
    /\ req' = Continue(r, CatchResponse(Written(r, sent)))
    /\ UNCHANGED <<transports, tSessionId, nTransports, uuidCount,
                   closedIds, closeRuns, registrations>>
    /\ UNCHANGED tvars

\* what concurrent clients send: a handshake without a header, and a stream or
\* a termination under a session identifier
ConcurrentRequests ==
    {<<NoSession, "POST", [present |-> TRUE, jsonrpc |-> "2.0", method |-> "initialize",
                           hasParams |-> TRUE]>>}
    \cup {<<sid, m, NoBody>> : sid \in TransportIds, m \in {"GET", "DELETE"}}

\* the header of a client that follows the protocol: absent, or a live session
Live(sid) == sid = NoSession \/ sid \in DOMAIN transports

\* the steps of the requests in flight
Progress ==
    \/ \E r \in DOMAIN req : McpConnected(r)
    \/ \E r \in DOMAIN req : McpConnectFails(r)
    \/ \E r \in DOMAIN req : SdkInitialize(r)
    \/ \E r \in DOMAIN req : SdkClose(r)
    \/ \E r \in DOMAIN req : SdkServe(r)
    \/ \E r \in DOMAIN req : SdkReject(r)
    \/ \E r \in DOMAIN req, sent \in BOOLEAN : SdkReturn(r, sent)
    \/ \E r \in DOMAIN req, sent \in BOOLEAN : SdkThrows(r, sent)

\* concurrent clients that follow the protocol: up to MaxInFlight requests
\* outstanding at once
Next ==
    \/ \E q \in ConcurrentRequests :
           Live(q[1]) /\ McpReceive(MaxInFlight, q[1], q[2], q[3])
    \/ Progress

Spec == Init /\ [][Next]_vars

\* one client at a time, sending every shape of request under every header
NextRequests ==
    \/ \E q \in Requests : McpReceive(1, q[1], q[2], q[3])
    \/ Progress

SpecRequests == Init /\ [][NextRequests]_vars


\* ------------------------------------------------- actions: tool invocation
\* `(args.max_results as number) || 100`
EffectiveMaxResults(m) == IF m = 0 THEN DefaultMaxResults ELSE m

\* { comments: allComments, count } and { ticket, comments, total_comments }
CommentsResult(name, allComments) ==
    [NoResult EXCEPT !.kind = name, !.items = allComments, !.count = Len(allComments)]

Failed_Retries(i, e) ==
    [i EXCEPT !.failures = Append(@, [kind |-> i.await, error |-> e]),
              !.calls = @ + 1]

\* the awaited remote call rejects with e
Failed(i, e) == [i EXCEPT !.failures = Append(@, [kind |-> i.await, error |-> e])]

InitTools ==
    /\ InitSessions
    /\ gw \in {Process(v, c) : v \in Variants, c \in BOOLEAN}
    /\ inv \in {[NoInvocation EXCEPT !.pc = "start", !.name = n, !.hasArgs = a,
                                     !.maxResults = m, !.isPublic = p] :
                   n \in ToolNames, a \in BOOLEAN, m \in MaxResultsArgs,
                   p \in IsPublicArgs}
    /\ inv.maxResults # 0 => (inv.name = "search_tickets" /\ inv.hasArgs)
    /\ inv.isPublic # "absent" => (inv.name = "add_comment" /\ inv.hasArgs)

\* a tools/call request (or POST /tools/:toolName) reaches its dispatcher, which
\* runs to its first remote call or to its response
Invoke ==
    /\ inv.pc = "start"
    /\ inv' = AddCommentRequest(
                  CASE gw.variant = "stdio" -> CallToolIndex(inv, gw.configured)
                    [] gw.variant = "http" -> CallToolServer(inv, gw.configured)
                    [] gw.variant = "rest" -> ExecuteTool(inv, gw.configured),
                  gw.variant)
    /\ UNCHANGED gw
    /\ UNCHANGED svars

\* the remote call of a one-call method returns: `return response.data`
SingleReturns ==
    /\ inv.pc = "awaiting" /\ inv.await = "single"
    /\ inv' = Respond(Settled(inv), gw.variant,
                       Return([NoResult EXCEPT !.kind = inv.name]))
    /\ UNCHANGED gw
    /\ UNCHANGED svars

\* GET /search.json of ZendeskClient.searchTickets (index.ts) returns n results
SearchTicketsReturns(n, total) ==
    /\ inv.pc = "awaiting" /\ inv.await = "search_tickets"
    /\ total >= n
    /\ inv' = Respond(Settled(inv), gw.variant,
                  Return(SearchTicketsResult([k \in 1..n |-> k], total,
                                             EffectiveMaxResults(inv.maxResults))))
    /\ UNCHANGED gw
    /\ UNCHANGED svars

\* GET /tickets/{id}.json of ZendeskClient.getTicket returns; the first page of
\* comments is requested
TicketReturns ==
    /\ inv.pc = "awaiting" /\ inv.await = "ticket"
    /\ inv' = Call(Settled(inv), "page")
    /\ UNCHANGED gw
    /\ UNCHANGED svars

\* a page of comments returns with len comments, with or without next_page
PageReturns(len, more) ==
    /\ inv.pc = "awaiting" /\ inv.await = "page"
    /\ more => inv.pages + 1 < MaxPages
    /\ LET page == [j \in 1..len |-> <<inv.pages + 1, j>>]
           i1 == [Settled(inv) EXCEPT
                     !.pages = @ + 1,
                     !.served = Append(@, [len |-> len, nextPage |-> more]),
                     !.allComments = Push(@, page)]
       IN  inv' = IF ContinueLoop(i1, more) THEN Call(i1, "page")
                  ELSE Respond(i1, gw.variant,
                               Return(CommentsResult(i1.name, i1.allComments)))
    /\ UNCHANGED gw
    /\ UNCHANGED svars

\* GET /help_center/articles/search.json returns n results: none, or the detail
\* fetches of the first DetailCap results are all issued at once
SearchReturns(n) ==
    /\ inv.pc = "awaiting" /\ inv.await = "search"
    /\ LET i1 == [Settled(inv) EXCEPT !.hits = n]
           fetched == Fetched([k \in 1..n |-> k])
       IN  inv' = IF n = 0
                  THEN Respond(i1, gw.variant, Return(NoHitsResult))
                  ELSE [i1 EXCEPT !.pc = "awaiting", !.await = "details",
                                  !.calls = @ + Len(fetched),
                                  !.outstanding = @ + Len(fetched),
                                  !.details = [k \in 1..Len(fetched) |-> "pending"]]
    /\ UNCHANGED gw
    /\ UNCHANGED svars

\* Promise.all resolves once no detail fetch is pending
DetailSettled(i) ==
    IF \E k \in 1..Len(i.details) : i.details[k] = "pending"
    THEN i
    ELSE Respond(i, gw.variant,
             Return(SearchArticlesResult(
                 PromiseAll([k \in 1..Len(i.details) |-> ArticleOrNull(k, i.details[k])],
                            i.order))))

\* the detail fetch of result k returns an article, a draft or not
DetailReturns(k, draft) ==
    /\ inv.pc = "awaiting" /\ inv.await = "details"
    /\ k \in 1..Len(inv.details) /\ inv.details[k] = "pending"
    /\ inv' = DetailSettled([Settled(inv) EXCEPT
                                !.order = Append(@, k),
                                !.details[k] = IF draft THEN "draft" ELSE "public"])
    /\ UNCHANGED gw
    /\ UNCHANGED svars

\* the detail fetch of result k fails: the inner catch returns null
DetailFails(k, e) ==
    /\ inv.pc = "awaiting" /\ inv.await = "details"
    /\ k \in 1..Len(inv.details) /\ inv.details[k] = "pending"
    /\ inv' = DetailSettled([Settled(Failed(inv, e)) EXCEPT
                                !.order = Append(@, k),
                                !.details[k] = "failed"])
    /\ UNCHANGED gw
    /\ UNCHANGED svars

\* any other remote call fails with e
CallFails(e) ==
    /\ inv.pc = "awaiting" /\ inv.await \notin {"none", "details"}
    /\ inv' = Respond(Settled(Failed(inv, e)), gw.variant,
                  CASE inv.await = "search_tickets" -> SearchTicketsCatch(e)
                    [] inv.await = "search" -> SearchArticlesCatch(e)
                    [] OTHER -> Propagate(inv, e))
    /\ UNCHANGED gw
    /\ UNCHANGED svars

NextTools ==
    \/ Invoke
    \/ SingleReturns
    \/ \E n \in 0..MaxHits, total \in 0..(MaxHits + 1) : SearchTicketsReturns(n, total)
    \/ TicketReturns
    \/ \E len \in 0..MaxPageLen, more \in BOOLEAN : PageReturns(len, more)
    \/ \E n \in 0..MaxHits : SearchReturns(n)
    \/ \E k \in DOMAIN inv.details, draft \in BOOLEAN : DetailReturns(k, draft)
    \/ \E k \in DOMAIN inv.details, e \in RemoteErrors : DetailFails(k, e)
    \/ \E e \in RemoteErrors : CallFails(e)

SpecTools == InitTools /\ [][NextTools]_vars

\* a tools/list request, or GET /tools, is answered
ListTools ==
    /\ inv' = [inv EXCEPT !.listed = TRUE, !.listing = ListToolsResponse(gw)]
    /\ UNCHANGED gw
    /\ UNCHANGED svars

\* the listing next to everything else the process does: sessions come and go
\* (on the HTTP server) and a registered or an unregistered tool is invoked
InitListing ==
    /\ InitSessions
    /\ gw \in {Process(v, c) : v \in Variants, c \in BOOLEAN}
    /\ inv \in {[NoInvocation EXCEPT !.pc = "start", !.name = n, !.hasArgs = TRUE] :
                   n \in {"search_users", "delete_ticket"}}

NextListing ==
    \/ ListTools
    \/ Invoke
    \/ SingleReturns
    \/ CallFails(BadResponse)
    \/ gw.variant # "stdio" /\ NextRequests

SpecListing == InitListing /\ [][NextListing]_vars

\* one search_tickets invocation of index.ts, the remote returning up to
\* MaxTicketHits results whatever per_page it was sent
InitTickets ==
    /\ InitSessions
    /\ gw = Process("stdio", TRUE)
    /\ inv \in {[NoInvocation EXCEPT !.pc = "start", !.name = "search_tickets",
                                     !.hasArgs = TRUE, !.maxResults = m] :
                   m \in MaxResultsArgs}

NextTickets ==
    \/ Invoke
    \/ \E n \in 0..MaxTicketHits, total \in {0, 1} : SearchTicketsReturns(n, n + total)
    \/ \E e \in RemoteErrors : CallFails(e)

SpecTickets == InitTickets /\ [][NextTickets]_vars

\* convertToCustomUrl applied to one article URL, with and without
\* ZENDESK_HELP_CENTER_URL
InitUrl ==
    /\ InitSessions
    /\ gw \in {[Process("stdio", TRUE) EXCEPT !.helpCenterUrl = h] :
                  h \in {"", HelpCenterUrl}}
    /\ inv \in {[NoInvocation EXCEPT !.pc = "converting", !.url = u] : u \in Urls}

ConvertUrl ==
    /\ inv.pc = "converting"
    /\ inv' = [inv EXCEPT !.pc = "converted",
                          !.publicUrl = ConvertToCustomUrl(gw.helpCenterUrl, inv.url)]
    /\ UNCHANGED gw
    /\ UNCHANGED svars

NextUrl == ConvertUrl

SpecUrl == InitUrl /\ [][NextUrl]_vars

\* one comment aggregation of index.ts: get_ticket or get_ticket_comments
InitPages ==
    /\ InitSessions
    /\ gw = Process("stdio", TRUE)
    /\ inv \in {[NoInvocation EXCEPT !.pc = "start", !.name = n, !.hasArgs = TRUE] :
                   n \in {"get_ticket", "get_ticket_comments"}}

NextPages ==
    \/ Invoke
    \/ TicketReturns
    \/ \E len \in 0..MaxPageLen, more \in BOOLEAN : PageReturns(len, more)
    \/ \E e \in RemoteErrors : CallFails(e)

\* the remote answers every request it is sent, and the event loop resumes the
\* awaiting method when the answer arrives
SpecPages == InitPages /\ [][NextPages]_vars /\ WF_vars(NextPages)

\* one search_articles invocation of index.ts with up to MaxArticleHits hits,
\* whose detail fetches settle in the order of the hits
InitArticles ==
    /\ InitSessions
    /\ gw = Process("stdio", TRUE)
    /\ inv = [NoInvocation EXCEPT !.pc = "start", !.name = "search_articles",
                                  !.hasArgs = TRUE]

InOrder(k) == k = Len(inv.order) + 1

NextArticles ==
    \/ Invoke
    \/ \E n \in 0..MaxArticleHits : SearchReturns(n)
    \/ \E k \in DOMAIN inv.details, draft \in BOOLEAN :
           InOrder(k) /\ DetailReturns(k, draft)
    \/ \E k \in DOMAIN inv.details : InOrder(k) /\ DetailFails(k, BadResponse)
    \/ CallFails(BadResponse)

SpecArticles == InitArticles /\ [][NextArticles]_vars

\* ------------------------------------------------------ claims: sessions
InTable(t) == \E sid \in DOMAIN transports : transports[sid] = t

\* a POST carrying a well-formed handshake, as the interface describes it
WellFormedHandshake(method, body) ==
    /\ method = "POST"
    /\ body.present
    /\ body.jsonrpc = "2.0"
    /\ body.method = "initialize"
    /\ body.hasParams

\* the no-session client error: HTTP 400, code -32000, id null, written by the endpoint
Rejected(r) ==
    /\ r.pc = "done"
    /\ r.status = 400
    /\ r.code = -32000
    /\ r.envId = "null"
    /\ r.envelope = "gateway"

\* C1 as stated: every request bearing the identifier of a closed session,
\* whatever its method or body, is rejected with the no-session error and
\* creates no session.
C1_StaleAlwaysRejected ==
    \A r \in DOMAIN req :
        r.stale => (Rejected(r) /\ r.created = NoTransport)

\* C1 amended: every request bearing the identifier of a closed session that is
\* not a POST carrying a well-formed handshake is rejected with the no-session
\* error, is routed to no transport and creates no session.
C1_StaleNonHandshakeRejected ==
    \A r \in DOMAIN req :
        (r.stale /\ ~WellFormedHandshake(r.method, r.body))
            => (/\ Rejected(r)
                /\ r.created = NoTransport
                /\ r.transport = NoTransport)

C1_Witness ==
    \E r \in DOMAIN req :
        /\ r.stale
        /\ r.method = "GET"
        /\ r.body.method = "initialize"
        /\ Rejected(r)

SessionState(t) ==
    IF t > nTransports THEN "none"
    ELSE IF closeRuns[t] > 0 THEN "closed"
    ELSE IF InTable(t) THEN "active"
    ELSE "initializing"

\* C4: a session moves only initializing -> active -> closed: it is inserted in
\* the table at most once, in the step where the handshake gives its transport
\* an identifier, and after its close callback has run it is never in the table.
C4_Lifecycle ==
    /\ [](\A t \in TransportIds :
            /\ registrations[t] <= 1
            /\ InTable(t) => tSessionId[t] # NoSession
            /\ closeRuns[t] > 0 => ~InTable(t))
    /\ [][\A t \in TransportIds :
            /\ <<SessionState(t), SessionState(t)'>> \in
                  {<<"none", "none">>, <<"none", "initializing">>,
                   <<"initializing", "initializing">>, <<"initializing", "active">>,
                   <<"active", "active">>, <<"active", "closed">>,
                   <<"closed", "closed">>}
            /\ (~InTable(t) /\ InTable(t)')
                  => (tSessionId[t] = NoSession /\ tSessionId'[t] # NoSession)]_vars

C4_Witness ==
    \E r \in DOMAIN req :
        /\ r.pc = "done"
        /\ r.method = "GET"
        /\ r.found
        /\ closeRuns[r.transport] > 0
        /\ ~InTable(r.transport)

\* C5 as stated: when constructing a session faults for a handshake request
\* (connect or handleRequest throws), the table holds no entry for that session
\* once the request has ended.
C5_FaultRegistersNothing ==
    \A r \in DOMAIN req :
        (r.pc = "done" /\ r.faulted /\ r.created # NoTransport)
            => ~InTable(r.created)

\* C6: closing is idempotent and single-shot: however often a session's close
\* callback has run its entry is gone and nothing else is: every session whose
\* own close callback has not run keeps its entry, and running the callback
\* again on any table reached changes nothing more.
C6_CloseIdempotent ==
    \A t \in TransportIds :
        /\ closeRuns[t] >= 1 => ~InTable(t)
        /\ (tSessionId[t] # NoSession /\ closeRuns[t] = 0)
              => (tSessionId[t] \in DOMAIN transports /\ transports[tSessionId[t]] = t)
        /\ OnClose(OnClose(transports, t), t) = OnClose(transports, t)
        /\ \A sid \in DOMAIN transports :
              sid # tSessionId[t]
                  => (sid \in DOMAIN OnClose(transports, t)
                      /\ OnClose(transports, t)[sid] = transports[sid])

C6_Witness ==
    \E t, t2 \in TransportIds :
        /\ t # t2
        /\ closeRuns[t] >= 2
        /\ closeRuns[t2] = 0
        /\ InTable(t2)

\* -------------------------------------------------------- claims: tools
Contains(text, token) == \E k \in 1..Len(text) : text[k] = token

\* the descriptor set the serving variant lists
Registered(variant) ==
    IF variant = "stdio" THEN {ToolsIndex[k] : k \in 1..Len(ToolsIndex)}
    ELSE {ToolsServer[k] : k \in 1..Len(ToolsServer)}

\* a failure: an MCP payload with the error flag set and a message, or on
\* POST /tools/:toolName an HTTP error status with { success: false, error }
FailurePayload(variant, resp) ==
    IF variant = "rest"
    THEN resp.status = 500 /\ ~resp.success /\ Len(resp.text) > 0
    ELSE resp.isError /\ Len(resp.text) > 0 /\ resp.status = 0

\* a success: an MCP payload without error flag carrying the serialized result,
\* or on POST /tools/:toolName status 200 with { success: true, data }
SuccessPayload(variant, resp) ==
    IF variant = "rest"
    THEN resp.status = 200 /\ resp.success /\ resp.result # NoResult
    ELSE ~resp.isError /\ Len(resp.text) > 0 /\ resp.status = 0

\* C7: every invocation ends in exactly one well-formed response, a success or
\* a failure in the form of its endpoint: nothing is answered before the end,
\* no exception escapes the dispatcher, and an invocation that has not ended is
\* waiting for a remote call that can still return.
C7_OneWellFormedResponse ==
    /\ ~inv.escaped
    /\ inv.pc # "done" => (inv.responses = 0 /\ ENABLED NextTools)
    /\ inv.pc = "done" =>
          /\ inv.responses = 1
          /\ FailurePayload(gw.variant, inv.resp) \/ SuccessPayload(gw.variant, inv.resp)

C7_Witness ==
    /\ inv.pc = "done"
    /\ gw.variant = "rest"
    /\ inv.failures # << >>
    /\ inv.resp.status = 500
    /\ inv.responses = 1

\* C8 as stated: every invocation of an unregistered tool name ends in a failure
\* payload with the error flag set whose message contains the name, without a
\* remote call and without an uncaught fault.
C8_UnknownToolAlwaysNamed ==
    (inv.pc = "done" /\ inv.name \notin Registered(gw.variant))
        => (/\ FailurePayload(gw.variant, inv.resp)
            /\ Contains(inv.resp.text, inv.name)
            /\ inv.calls = 0
            /\ ~inv.escaped)

\* C8 amended: with credentials configured and, on the two CallTool handlers,
\* arguments present, every invocation of an unregistered tool name ends in a
\* failure payload with the error flag set whose message contains the name; and
\* in every case an unregistered name causes no remote call and no uncaught fault.
C8_UnknownToolNamed ==
    (inv.pc = "done" /\ inv.name \notin Registered(gw.variant))
        => (/\ inv.calls = 0
            /\ ~inv.escaped
            /\ inv.responses = 1
            /\ (gw.configured /\ (inv.hasArgs \/ gw.variant = "rest"))
                  => (/\ FailurePayload(gw.variant, inv.resp)
                      /\ Contains(inv.resp.text, inv.name)))

C8_Witness ==
    /\ inv.pc = "done"
    /\ gw.variant = "http"
    /\ gw.configured /\ inv.hasArgs
    /\ inv.name = "search_articles"
    /\ inv.resp.isError
    /\ Contains(inv.resp.text, "search_articles")

\* the remote calls of the invocation that failed, detail fetches excluded
OuterFailures == SelectSeq(inv.failures, LAMBDA f : f.kind # "details")

AnsweredByClient(f) ==
    \/ f.kind = "search"
    \/ /\ f.kind = "search_tickets"
       /\ \/ f.error.code = "ECONNABORTED"
          \/ f.error.message = "timeout of 30000ms exceeded"

C10_NoCredentialsFailsFast ==
    (inv.pc = "done" /\ ~gw.configured /\ gw.variant \in {"stdio", "http"})
        => (/\ FailurePayload(gw.variant, inv.resp)
            /\ inv.resp.text = CredentialsText
            /\ inv.calls = 0)

\* ------------------------------------------------- claims: comment pages
RECURSIVE Concatenation(_)
Concatenation(pages) ==
    IF pages = << >> THEN << >> ELSE Head(pages) \o Concatenation(Tail(pages))

RECURSIVE SumOfLengths(_)
SumOfLengths(pages) ==
    IF pages = << >> THEN 0 ELSE Len(Head(pages)) + SumOfLengths(Tail(pages))

\* the pages the remote served to this invocation, in the order it served them
ServedPages ==
    [p \in 1..Len(inv.served) |-> [j \in 1..inv.served[p].len |-> <<p, j>>]]

Aggregates == inv.name \in {"get_ticket", "get_ticket_comments"}

PageFailures == SelectSeq(inv.failures, LAMBDA f : f.kind = "page")

\* requests for a page of comments issued so far
PageRequests ==
    IF inv.name = "get_ticket" /\ inv.calls > 0 THEN inv.calls - 1 ELSE inv.calls

\* C11: when every request of a comment aggregation (get_ticket_comments, and
\* the comments of get_ticket, of index.ts) succeeded, the response carries
\* exactly the concatenation of the served pages, first page first: its length
\* and its count are the sum of the page lengths.
C11_Concatenation ==
    (inv.pc = "done" /\ gw.variant = "stdio" /\ Aggregates /\ inv.failures = << >>)
        => (/\ SuccessPayload(gw.variant, inv.resp)
            /\ inv.resp.result.items = Concatenation(ServedPages)
            /\ Len(inv.resp.result.items) = SumOfLengths(ServedPages)
            /\ inv.resp.result.count = SumOfLengths(ServedPages))

C11_Witness ==
    /\ inv.pc = "done"
    /\ inv.name = "get_ticket_comments"
    /\ inv.failures = << >>
    /\ Len(inv.served) = 3
    /\ inv.served[1].len = 2 /\ inv.served[2].len = 2 /\ inv.served[3].len = 1
    /\ Len(inv.resp.result.items) = 5

\* C12: when the request for a page fails, the first or a later one, the
\* invocation ends in a failure that carries none of the comments accumulated
\* from earlier pages, and no page is requested after the failed one.
C12_PageFailureAborts ==
    (inv.pc = "done" /\ gw.variant = "stdio" /\ Aggregates /\ PageFailures # << >>)
        => (/\ FailurePayload(gw.variant, inv.resp)
            /\ inv.resp.result = NoResult
            /\ Contains(inv.resp.text, PageFailures[1].error.message)
            /\ Len(PageFailures) = 1
            /\ PageRequests = Len(inv.served) + 1
            /\ inv.outstanding = 0)

C12_Witness ==
    /\ inv.pc = "done"
    /\ inv.name = "get_ticket_comments"
    /\ PageFailures # << >>
    /\ Len(inv.served) = 2
    /\ inv.allComments # << >>
    /\ inv.resp.isError

\* C13: the pages of one aggregation are fetched one after the other: at most
\* one page request is outstanding, the request for the next page is issued
\* only once the page before it has arrived, and an aggregation that ended
\* without failure made exactly one request per page served.
C13_SequentialPages ==
    (gw.variant = "stdio" /\ Aggregates /\ inv.pc # "start")
        => (/\ inv.outstanding <= 1
            /\ PageRequests <= Len(inv.served) + 1
            /\ inv.await = "page"
                  => (inv.outstanding = 1 /\ PageRequests = Len(inv.served) + 1)
            /\ (inv.pc = "done" /\ inv.failures = << >>)
                  => (inv.outstanding = 0 /\ PageRequests = Len(inv.served)))

C13_Witness ==
    /\ inv.pc = "awaiting"
    /\ inv.await = "page"
    /\ inv.name = "get_ticket"
    /\ Len(inv.served) = 2
    /\ inv.calls = 4

\* C14: an aggregation ends exactly when a page arrives without a continuation
\* reference or a request fails: every page before the last carried one, a page
\* that carries one is always followed by the request for the next page however
\* many pages came before, and with a remote that stops referring onwards the
\* aggregation ends.
C14_Termination ==
    /\ [](inv.pc = "done" =>
            \/ inv.failures # << >>
            \/ (inv.served # << >> /\ ~inv.served[Len(inv.served)].nextPage))
    /\ [](\A p \in 1..(Len(inv.served) - 1) : inv.served[p].nextPage)
    /\ []((/\ inv.served # << >>
           /\ inv.served[Len(inv.served)].nextPage
           /\ inv.failures = << >>)
             => (inv.pc = "awaiting" /\ inv.await = "page"))
    /\ <>(inv.pc = "done")

C14_Witness ==
    /\ inv.pc = "done"
    /\ inv.failures = << >>
    /\ Len(inv.served) = MaxPages
    /\ \A p \in 1..(MaxPages - 1) : inv.served[p].nextPage

\* ------------------------------------------------- claims: article search
\* the hits whose detail fetch produced a public article, in the order of the hits
Survivors ==
    SelectSeq([k \in 1..Len(inv.details) |-> k], LAMBDA k : inv.details[k] = "public")

\* a search_articles invocation whose search call returned and whose batch ended
BatchEnded ==
    /\ inv.pc = "done"
    /\ inv.name = "search_articles"
    /\ gw.variant = "stdio"
    /\ inv.order # << >>

\* C15: a search_articles batch returns at most min(5, number of hits) records,
\* and the records are in the relative order of their hits in the search result.
C15_CappedInOrder ==
    BatchEnded =>
        LET items == inv.resp.result.items
        IN  /\ Len(items) <= Min(ResultCap, inv.hits)
            /\ \A a, b \in 1..Len(items) : a < b => items[a] < items[b]
            /\ \A a \in 1..Len(items) : items[a] \in 1..inv.hits

C15_Witness ==
    /\ BatchEnded
    /\ inv.hits = MaxArticleHits
    /\ Len(Survivors) > ResultCap
    /\ Len(inv.resp.result.items) = ResultCap

\* C16: a hit whose detail fetch failed and a hit whose detail is a draft are
\* never among the returned records, and neither ends the batch in a failure:
\* when some fetched hit is public the invocation succeeds with the first
\* records of the surviving hits.
C16_DraftAndFailedDropped ==
    BatchEnded =>
        LET items == inv.resp.result.items
        IN  /\ \A a \in 1..Len(items) : inv.details[items[a]] = "public"
            /\ Survivors # << >> =>
                  /\ SuccessPayload(gw.variant, inv.resp)
                  /\ ~inv.resp.result.hasError
                  /\ items = Slice(Survivors, ResultCap)

C16_Witness ==
    /\ BatchEnded
    /\ inv.hits = 10
    /\ inv.details[3] = "draft"
    /\ inv.details[7] = "failed"
    /\ \A k \in (1..10) \ {3, 7} : inv.details[k] = "public"
    /\ inv.resp.result.items = <<1, 2, 4, 5, 6>>
    /\ ~inv.resp.isError

\* C17: the result of a batch depends on the hits and on the outcome of each
\* hit's fetch only, not on the order in which the fetches settled: it is the
\* first records of the public hits in the order of the hits, and the count of
\* the public hits.
C17_OrderIndependent ==
    BatchEnded =>
        /\ inv.resp.result.items = Slice(Survivors, ResultCap)
        /\ inv.resp.result.count = Len(Survivors)
        /\ Len(inv.order) = Len(inv.details)

C17_Witness ==
    /\ BatchEnded
    /\ inv.order = <<3, 1, 2>>
    /\ inv.details = <<"public", "failed", "public">>
    /\ inv.resp.result.items = <<1, 3>>

\* C18: detail fetches are issued for the first 10 hits only: there is one
\* fetch per hit of that prefix and none beyond it, so at most 10 fetches are
\* outstanding, however many hits the search returned.
C18_PrefixOnly ==
    (inv.name = "search_articles" /\ gw.variant = "stdio")
        => (/\ Len(inv.details) = Min(inv.hits, DetailCap)
            /\ inv.outstanding <= DetailCap
            /\ inv.calls <= 1 + DetailCap
            /\ inv.await = "details" =>
                  inv.outstanding =
                      Cardinality({k \in DOMAIN inv.details : inv.details[k] = "pending"}))

C18_Witness ==
    /\ inv.name = "search_articles"
    /\ inv.hits = MaxArticleHits
    /\ inv.hits > DetailCap
    /\ inv.await = "details"
    /\ inv.outstanding = DetailCap

\* C19: a search_articles invocation whose search call returned and that ends
\* with no record answers with a success payload (no error flag, no error
\* field), an empty list and a message; the message when the search had no hit
\* differs from the message when hits existed and every fetched one was a draft
\* or failed.
C19_EmptyIsSuccess ==
    (/\ inv.pc = "done"
     /\ inv.name = "search_articles"
     /\ gw.variant = "stdio"
     /\ inv.calls > 0
     /\ OuterFailures = << >>
     /\ inv.resp.result.items = << >>)
        => (/\ SuccessPayload(gw.variant, inv.resp)
            /\ ~inv.resp.result.hasError
            /\ inv.resp.result.count = 0
            /\ inv.resp.result.message # ""
            /\ inv.resp.result.message =
                  (IF inv.hits = 0 THEN NoHitsResult.message ELSE NoPublicResult.message)
            /\ NoHitsResult.message # NoPublicResult.message)

C19_Witness ==
    /\ inv.pc = "done"
    /\ inv.name = "search_articles"
    /\ inv.hits = 2
    /\ inv.details = <<"draft", "failed">>
    /\ inv.resp.result.items = << >>
    /\ ~inv.resp.isError

\* ------------------------------------------------- claims: tool listing
\* C20: the listing is the full descriptor set of the serving process in
\* declaration order in every reachable state, with or without credentials,
\* whatever sessions exist and whatever was invoked before, and no step changes
\* the registry.
C20_ListingFixed ==
    /\ [](gw.tools = (IF gw.variant = "stdio" THEN ToolsIndex ELSE ToolsServer))
    /\ [](inv.listed =>
            inv.listing = (IF gw.variant = "stdio" THEN ToolsIndex ELSE ToolsServer))
    /\ [][gw' = gw]_vars

C20_Witness ==
    /\ inv.listed
    /\ ~gw.configured
    /\ gw.variant = "http"
    /\ DOMAIN transports # {}
    /\ closedIds # {}
    /\ inv.pc = "done"
    /\ Len(inv.listing) = 10

\* ------------------------------------------------- claims: documented fields
\* C21 as stated: the count field of a search_articles response is the number
\* of results the help-center search returned for the query.
C21_CountIsSearchTotal ==
    (BatchEnded /\ SuccessPayload(gw.variant, inv.resp))
        => inv.resp.result.count = inv.hits

\* C22 as stated: search_tickets returns at most min(max_results, 100) tickets,
\* and at most 100 when max_results is absent, whatever the remote returned.
C22_AtMostLimit ==
    (inv.pc = "done" /\ inv.name = "search_tickets" /\ gw.variant = "stdio"
        /\ inv.failures = << >>)
        => Len(inv.resp.result.items)
              <= Min(EffectiveMaxResults(inv.maxResults), MaxResultsLimit)

\* C23: add_comment sends the comment as public exactly when is_public is absent
\* or true and as internal when is_public is false, on every dispatcher: an
\* internal comment is never sent as public, and whenever the request is sent
\* it carries one of the two.
C23_PublicFlag ==
    /\ inv.public # "none" => inv.name = "add_comment"
    /\ (inv.name = "add_comment" /\ inv.calls > 0) =>
          /\ inv.public \in {"true", "false"}
          /\ inv.public = "true" <=> inv.isPublic \in {"absent", "true"}
          /\ inv.public = "false" <=> inv.isPublic = "false"

C23_Witness ==
    /\ inv.pc = "done"
    /\ inv.name = "add_comment"
    /\ gw.variant = "stdio"
    /\ inv.isPublic = "false"
    /\ inv.public = "false"
    /\ inv.failures = << >>

\* C24 as stated: the rewrite replaces the fixed-origin prefix of the URL with
\* the configured public domain and leaves everything after it untouched; with
\* no public domain configured the URL is returned unchanged.
C24_PrefixOnly ==
    inv.pc = "converted" =>
        inv.publicUrl =
            (IF gw.helpCenterUrl # "" /\ Head(inv.url) = ZendeskHc
             THEN <<CustomHc>> \o Tail(inv.url)
             ELSE inv.url)

\* the message of the `!args` test, and the message of the default case
MissingArguments(resp) == Contains(resp.text, "Error: No arguments provided")

UnknownTool(resp) == Contains(resp.text, "Unknown tool: ")

\* C25 as stated: the name is checked before the arguments: on the CallTool
\* handlers a configured invocation of an unregistered name fails with the
\* unknown-tool message even when its arguments are absent, and fails with the
\* missing-arguments message only when its name is registered.
C25_NameBeforeArguments ==
    (inv.pc = "done" /\ gw.configured /\ gw.variant # "rest") =>
        /\ inv.name \notin Registered(gw.variant) => UnknownTool(inv.resp)
        /\ MissingArguments(inv.resp) => inv.name \in Registered(gw.variant)

\* C25 amended: the CallTool handlers check the arguments before the name: a
\* configured invocation whose arguments are absent fails with the
\* missing-arguments message whatever its name, and fails with the unknown-tool
\* message exactly when its arguments are present and its name is not
\* registered; both are failure payloads with the error flag set, made without
\* a remote call.
C25_ArgumentsBeforeName ==
    (inv.pc = "done" /\ gw.configured /\ gw.variant # "rest") =>
        /\ MissingArguments(inv.resp) <=> ~inv.hasArgs
        /\ UnknownTool(inv.resp) <=>
              (inv.hasArgs /\ inv.name \notin Registered(gw.variant))
        /\ (MissingArguments(inv.resp) \/ UnknownTool(inv.resp)) =>
              /\ FailurePayload(gw.variant, inv.resp)
              /\ inv.resp.isError
              /\ inv.calls = 0

C25_Witness ==
    /\ inv.pc = "done"
    /\ gw.configured
    /\ gw.variant = "stdio"
    /\ inv.name = "delete_ticket"
    /\ ~inv.hasArgs
    /\ MissingArguments(inv.resp)
    /\ inv.resp.isError

\* the step runs the handshake-completion callback of transport t: the
\* transport gets its identifier and the table gets that one new entry
HandshakeCompletes(t) ==
    /\ tSessionId[t] = NoSession
    /\ tSessionId'[t] # NoSession
    /\ tSessionId'[t] \notin DOMAIN transports
    /\ transports' = (tSessionId'[t] :> t) @@ transports

\* the step runs the close callback of transport t: the table loses the entry
\* of that transport's session and no other
CloseRuns(t) ==
    /\ closeRuns'[t] > closeRuns[t]
    /\ transports' = Remove(transports, tSessionId[t])

\* C26: the session table changes only in a step that runs the
\* handshake-completion callback (one entry inserted) or the close callback (that
\* session's entry deleted); a step of a tool invocation, successful or failed,
\* of the tool listing, of a rejected request or of a request served on a live
\* session leaves every entry unchanged.
C26_TableFrame ==
    [][/\ transports' # transports =>
              \E t \in TransportIds : HandshakeCompletes(t) \/ CloseRuns(t)
       /\ inv' # inv => transports' = transports
       /\ (\A t \in TransportIds :
              tSessionId'[t] = tSessionId[t] /\ closeRuns'[t] = closeRuns[t])
              => transports' = transports]_vars

C26_Witness ==
    /\ gw.variant = "http"
    /\ inv.pc = "done"
    /\ inv.failures # << >>
    /\ inv.resp.isError
    /\ inv.listed
    /\ Cardinality(DOMAIN transports) = 2
    /\ \E r \in BagToSet(req) : r.pc = "done" /\ r.status = 400

\* the request record r was resolved to a session of the table
Routed(r) == r.found

\* C27: a request whose session header identifies a live session is handed to
\* that session's own transport and to no other, creates no transport and is
\* not answered by the gateway's no-session error, whatever its method and
\* body; and every request received under such a header is routed this way.
C27_OwnTransport ==
    /\ [](\A r \in BagToSet(req) :
            Routed(r) =>
                /\ r.transport # NoTransport
                /\ tSessionId[r.transport] = r.sid
                /\ \A t \in TransportIds \ {r.transport} : tSessionId[t] # r.sid
                /\ r.created = NoTransport
                /\ r.code # -32000)
    /\ [][\A q \in Requests :
            (McpReceive(1, q[1], q[2], q[3]) /\ q[1] \in DOMAIN transports) =>
                /\ nTransports' = nTransports
                /\ \E r \in BagToSet(req') :
                      /\ Routed(r) /\ r.pc = "handling"
                      /\ r.sid = q[1] /\ r.method = q[2] /\ r.body = q[3]
                      /\ r.transport = transports[q[1]]]_vars

C27_Witness ==
    /\ Cardinality(DOMAIN transports) = 2
    /\ \E r \in BagToSet(req) :
          /\ Routed(r)
          /\ r.sid = 2
          /\ r.transport = transports[2]
          /\ WellFormedHandshake(r.method, r.body)
          /\ r.pc = "done"
          /\ nTransports = 2

DetailFailures == SelectSeq(inv.failures, LAMBDA f : f.kind = "details")

\* the most remote requests the invocation can have issued so far when each
\* request is issued once: one per page served and one for the page awaited or
\* failed (and the ticket itself), one search call and one fetch per candidate,
\* one call for every other tool
IssuedOnce ==
    CASE gw.variant = "stdio" /\ inv.name = "get_ticket_comments" ->
             Len(inv.served) + 1
      [] gw.variant = "stdio" /\ inv.name = "get_ticket" -> Len(inv.served) + 2
      [] gw.variant = "stdio" /\ inv.name = "search_articles" ->
             1 + Min(inv.hits, DetailCap)
      [] OTHER -> 1

\* C28: no retries: within one invocation each remote request is issued at most
\* once (one request per comment page, one detail fetch per candidate, one search
\* call, one call for a one-call tool), every recorded failure is the failure of
\* a request of its own, a failed request other than a detail fetch ends the
\* invocation, and the step in which a request fails issues no request.
C28_NoRetries ==
    /\ [](/\ inv.calls <= IssuedOnce
          /\ Len(inv.failures) + inv.outstanding <= inv.calls
          /\ Len(OuterFailures) <= 1
          /\ OuterFailures # << >> => (inv.pc = "done" /\ inv.outstanding = 0)
          /\ Len(inv.details) <= Min(inv.hits, DetailCap)
          /\ \A a, b \in 1..Len(inv.order) : a # b => inv.order[a] # inv.order[b]
          /\ Len(DetailFailures)
                = Cardinality({k \in 1..Len(inv.details) : inv.details[k] = "failed"})
          /\ inv.pc = "done" => inv.outstanding = 0)
    /\ [][/\ Len(inv'.failures) > Len(inv.failures) => inv'.calls = inv.calls
          /\ Len(inv'.failures) <= Len(inv.failures) + 1
          /\ inv.pc = "done" => inv'.calls = inv.calls]_vars

C28_Witness ==
    /\ inv.pc = "done"
    /\ gw.variant = "stdio"
    /\ inv.name = "get_ticket"
    /\ Len(inv.served) = 2
    /\ Len(PageFailures) = 1
    /\ inv.calls = 4
    /\ inv.resp.isError

\* JSON-RPC codes of the two error envelopes of app.all("/mcp")
NoSessionCode == -32000
InternalErrorCode == -32603

\* the gateway itself wrote an error envelope on the response of r
GatewayEnvelope(r) == r.envelopes > 0

\* C29: every error envelope the gateway writes on /mcp has id null and one of
\* two codes: -32000 (status 400) exactly when the request resolved to no
\* session and was not accepted as a handshake, -32603 (status 500) exactly when
\* a fault was caught; a request gets at most one envelope and one response
\* head, and a fault caught after the head was sent writes no envelope.
C29_ErrorEnvelopes ==
    \A r \in BagToSet(req) :
        /\ r.envelopes <= 1
        /\ r.heads <= 1
        /\ r.headersSent <=> r.heads = 1
        /\ GatewayEnvelope(r) <=> r.envelope = "gateway"
        /\ GatewayEnvelope(r) =>
              /\ r.pc = "done"
              /\ r.envId = "null"
              /\ r.code \in {NoSessionCode, InternalErrorCode}
              /\ r.code = NoSessionCode <=> (~r.found /\ r.created = NoTransport)
              /\ r.code = NoSessionCode <=> r.status = 400
              /\ r.code = InternalErrorCode <=> r.faulted
              /\ r.code = InternalErrorCode <=> r.status = 500
        /\ ~GatewayEnvelope(r) => (r.code = 0 /\ r.envId = "none" /\ r.status = 0)
        /\ (r.pc # "received" /\ ~r.found /\ r.created = NoTransport)
              => (GatewayEnvelope(r) /\ r.code = NoSessionCode)
        /\ r.faulted => (GatewayEnvelope(r) <=> r.envelope # "sdk")

C29_Witness ==
    \E r \in BagToSet(req) :
        /\ r.pc = "done"
        /\ r.faulted
        /\ r.envelope = "sdk"
        /\ r.headersSent
        /\ r.envelopes = 0
        /\ r.found

\* the names the dispatcher of the serving variant handles
Handled(variant) == IF variant = "stdio" THEN SwitchIndex ELSE SwitchServer

\* the invocation reached the switch on the tool name
ReachedSwitch ==
    /\ inv.pc = "done"
    /\ gw.configured
    /\ inv.hasArgs \/ gw.variant = "rest"

\* C30: in each variant the listed descriptor set and the dispatcher agree: the
\* listed names are exactly the names the dispatcher handles, an invocation of
\* a listed name that reaches the dispatcher is never answered with Unknown
\* tool, and an invocation answered with Unknown tool names a tool that is not
\* listed.
C30_RegistryMatchesDispatcher ==
    /\ Registered(gw.variant) = Handled(gw.variant)
    /\ Cardinality(Registered(gw.variant)) = Len(gw.tools)
    /\ UnknownTool(inv.resp) => inv.name \notin Registered(gw.variant)
    /\ ReachedSwitch =>
          /\ UnknownTool(inv.resp) <=> inv.name \notin Registered(gw.variant)
          /\ (inv.name \in Registered(gw.variant) /\ inv.hasArgs) => inv.calls >= 1

C30_Witness ==
    /\ inv.pc = "done"
    /\ gw.variant = "http"
    /\ gw.configured
    /\ inv.name = "get_ticket_comments"
    /\ inv.hasArgs
    /\ inv.calls = 1
    /\ SuccessPayload(gw.variant, inv.resp)

====
